---- MODULE Spec2Model ----
(***************************************************************************)
(* Model of src/js/main.js: class AppleTVWeatherApp.                        *)
(*                                                                         *)
(* The browser runs every callback (key event, click, timer, completion of *)
(* an awaited fetch) to completion, so each callback is one atomic action. *)
(* An async loadWeatherData is two actions: its synchronous prefix up to   *)
(* the first await (the request is issued) and its continuation (the       *)
(* response is handled); other callbacks may run in between.               *)
(*                                                                         *)
(* The page's markup is given by the ids and classes the script looks up:  *)
(* #citySelector, #range24h, #range48h, #retryBtn and a list of            *)
(* .city-option elements whose length the script does not fix.             *)
(***************************************************************************)
EXTENDS Integers, Sequences, FiniteSets, TLC

(***************************************************************************)
(* Bounds of the model.                                                    *)
(***************************************************************************)
\* the most .city-option elements the page may hold
MaxOptions == 2
\* the most loadWeatherData requests awaiting their response at once
MaxInflight == 2

(***************************************************************************)
(* Program constants.                                                      *)
(***************************************************************************)
\* keys of this.cities: of its ten keys the model keeps 'tokyo' and 'osaka'
Tokyo == 1
Osaka == 2
Cities == {Tokyo, Osaka}
\* a stored string that is no key of this.cities
InvalidCity == 0
\* null: localStorage holds no value (or could not be read)
NoCity == -1
\* null for weatherData / no chart / page default text
Null == [city |-> NoCity, hours |-> 0, good |-> FALSE]
\* the forecast_hours values the two range buttons set
Range24 == 24
Range48 == 48
TimeRanges == {Range24, Range48}

Min(a, b) == IF a < b THEN a ELSE b
Max(a, b) == IF a > b THEN a ELSE b
Range(s) == {s[i] : i \in 1 .. Len(s)}

(***************************************************************************)
(* Elements of the page the script registers handlers on.                  *)
(***************************************************************************)
CitySelector == [kind |-> "citySelector", n |-> 0]
Range24h == [kind |-> "range24h", n |-> 0]
Range48h == [kind |-> "range48h", n |-> 0]
RetryBtn == [kind |-> "retryBtn", n |-> 0]
\* the i-th .city-option of the page, in document order
CityOption(i) == [kind |-> "city-option", n |-> i]
\* option.dataset.city of the i-th option: the options list the cities in
\* the order of the table, starting over after the last key
DataCity(i) == IF i % 2 = 1 THEN Tokyo ELSE Osaka
\* document.activeElement when none of the above has input focus
Body == [kind |-> "body", n |-> 0]

Keys == {"ArrowRight", "ArrowDown", "ArrowLeft", "ArrowUp", "Enter", " ",
         "Escape", "Backspace", "Tab"}

VARIABLES
    \* fields of AppleTVWeatherApp
    currentCity,
    currentTimeRange,
    focusableElements,
    currentFocusIndex,
    isDropdownOpen,
    weatherData,
    chart,
    autoRefreshInterval,
    \* the page
    numOptions,         \* number of .city-option elements
    focused,            \* elements whose classList holds 'focused'
    activeElement,      \* element holding input focus
    dropdownActive,     \* #cityDropdown has class 'active'
    selectedCityText,   \* text of #selectedCity (city key, NoCity = markup default)
    shownCity,          \* city whose values #currentTemp etc. show
    loadingActive,      \* #loadingOverlay has class 'active'
    errorActive,        \* #errorMessage has class 'active'
    \* the environment
    savedCity,          \* localStorage['appleTV_selectedCity']
    inflight,           \* requests awaiting their response, in issue order
    initFocusPending,   \* the 100 ms setTimeout of setupEventListeners
    app,                \* the global app holds the instance (line 589)
    \* history (not program state)
    lastOp,             \* the handler that ran last
    run,                \* consecutive runs of lastOp (focusNext/focusPrevious)
    preOverlayIndex     \* currentFocusIndex when the overlay was opened, kept
                        \* until the first handler after it has closed

navVars == <<focusableElements, currentFocusIndex, isDropdownOpen, focused,
             activeElement, dropdownActive>>
dataVars == <<weatherData, chart, shownCity, loadingActive, errorActive, inflight>>
cityVars == <<currentCity, savedCity, selectedCityText>>
histVars == <<lastOp, run, preOverlayIndex>>
vars == <<currentCity, currentTimeRange, focusableElements, currentFocusIndex,
          isDropdownOpen, weatherData, chart, autoRefreshInterval, numOptions,
          focused, activeElement, dropdownActive, selectedCityText, shownCity,
          loadingActive, errorActive, savedCity, inflight, initFocusPending,
          app, lastOp, run, preOverlayIndex>>

\* the longest FocusSet of the model, and the cap of the run counter
NormalTargets == <<CitySelector, Range24h, Range48h>>
RunCap == Max(MaxOptions, Len(NormalTargets)) + 5

(***************************************************************************)
(* document.getElementById / querySelectorAll                              *)
(***************************************************************************)
\* getElementById(id) !== null: the constructor dereferences the four ids
\* in setupEventListeners, so they exist in every state after construction
Exists(el) == el \in {CitySelector, Range24h, Range48h, RetryBtn}
                      \cup {CityOption(i) : i \in 1 .. numOptions}
\* Array.from(document.querySelectorAll('.city-option')), document order
CityOptions == [i \in 1 .. numOptions |-> CityOption(i)]

\* updateFocusableElements() that does not narrow the FocusSet to the overlay
UpdateFocusableElementsAll(open) ==
    SelectSeq(IF open THEN NormalTargets \o CityOptions ELSE NormalTargets, Exists)

\* updateFocusableElements(), as a function of this.isDropdownOpen
UpdateFocusableElements(open) ==
    SelectSeq(IF open THEN CityOptions ELSE NormalTargets, Exists)

\* Math.max(0, Math.min(index, length - 1))
Clamp(index, length) == Max(0, Min(index, length - 1))

\* focusElement(index) without the Math.max/Math.min of line 142
FocusElementUnclamped(fe, index) ==
    IF Len(fe) = 0
    THEN UNCHANGED <<currentFocusIndex, focused, activeElement>>
    ELSE /\ currentFocusIndex' = index
         /\ focused' = IF index + 1 \in 1 .. Len(fe)
                       THEN (focused \ Range(fe)) \cup {fe[index + 1]}
                       ELSE focused \ Range(fe)
         /\ activeElement' = IF index + 1 \in 1 .. Len(fe)
                             THEN fe[index + 1]
                             ELSE Body

\* focusElement(index) without the forEach of lines 136-139
FocusElementKeepsMarks(fe, index) ==
    IF Len(fe) = 0
    THEN UNCHANGED <<currentFocusIndex, focused, activeElement>>
    ELSE /\ currentFocusIndex' = Clamp(index, Len(fe))
         /\ focused' = focused \cup {fe[Clamp(index, Len(fe)) + 1]}
         /\ activeElement' = fe[Clamp(index, Len(fe)) + 1]

\* focusElement(index) on the FocusSet fe (0-based index, as in the code)
FocusElement(fe, index) ==
    IF Len(fe) = 0
    THEN UNCHANGED <<currentFocusIndex, focused, activeElement>>
    ELSE /\ currentFocusIndex' = Clamp(index, Len(fe))
         /\ focused' = (focused \ Range(fe)) \cup {fe[Clamp(index, Len(fe)) + 1]}
         /\ activeElement' = fe[Clamp(index, Len(fe)) + 1]

\* focusNext() that wraps from the last target to the first
focusNextWraps ==
    FocusElement(focusableElements,
                 IF currentFocusIndex + 1 >= Len(focusableElements)
                 THEN 0
                 ELSE currentFocusIndex + 1)

focusNext ==
    FocusElement(focusableElements, currentFocusIndex + 1)

\* focusPrevious() that wraps from the first target to the last
focusPreviousWraps ==
    FocusElement(focusableElements,
                 IF currentFocusIndex = 0
                 THEN Len(focusableElements) - 1
                 ELSE currentFocusIndex - 1)

focusPrevious ==
    FocusElement(focusableElements, currentFocusIndex - 1)

(***************************************************************************)
(* Weather data                                                            *)
(***************************************************************************)
\* the chart drawChart() builds from data d: the future series is
\* slice(24, 24 + currentTimeRange + 1) of what the response holds
DrawnChart(d, range) ==
    [city |-> d.city, hours |-> Min(range, d.hours), good |-> TRUE]

\* loadWeatherData() up to its first await, for this.currentCity = city.
\* An unknown key makes city undefined: building the URL throws inside the
\* try block and the catch block runs before the call returns.
loadWeatherData(city) ==
    IF city \in Cities
    THEN /\ loadingActive' = TRUE
         /\ errorActive' = FALSE
         /\ inflight' = Append(inflight, [city |-> city, hours |-> currentTimeRange])
    ELSE /\ loadingActive' = FALSE
         /\ errorActive' = TRUE
         /\ inflight' = inflight

RemoveAt(s, i) == [j \in 1 .. Len(s) - 1 |-> IF j < i THEN s[j] ELSE s[j + 1]]

progRest == <<currentTimeRange, autoRefreshInterval, numOptions, initFocusPending,
              app>>

\* the rest of loadWeatherData() for the i-th outstanding request:
\*   "ok"   the response is ok and its body has the hourly series
\*   "fail" fetch rejects, response.ok is false, or response.json() rejects
\*   "bad"  the body parses but lacks the hourly series: weatherData is
\*          assigned, then updateCurrentWeather throws
loadWeatherDataResume(i, outcome) ==
    /\ i \in 1 .. Len(inflight)
    /\ inflight' = RemoveAt(inflight, i)
    /\ loadingActive' = FALSE
    /\ CASE outcome = "ok" ->
              /\ weatherData' = [city |-> inflight[i].city,
                                 hours |-> inflight[i].hours, good |-> TRUE]
              /\ shownCity' = inflight[i].city
              /\ chart' = DrawnChart(weatherData', currentTimeRange)
              /\ errorActive' = errorActive
         [] outcome = "fail" ->
              /\ errorActive' = TRUE
              /\ UNCHANGED <<weatherData, shownCity, chart>>
         [] outcome = "bad" ->
              /\ weatherData' = [city |-> inflight[i].city,
                                 hours |-> inflight[i].hours, good |-> FALSE]
              /\ errorActive' = TRUE
              /\ UNCHANGED <<shownCity, chart>>
    /\ UNCHANGED <<navVars, cityVars, progRest>>

(***************************************************************************)
(* City selection                                                          *)
(***************************************************************************)
\* toggleCityDropdown() that focuses the index held before
toggleCityDropdownKeepsIndex ==
    /\ isDropdownOpen' = ~isDropdownOpen
    /\ dropdownActive' = ~isDropdownOpen
    /\ focusableElements' = UpdateFocusableElements(~isDropdownOpen)
    /\ FocusElement(UpdateFocusableElements(~isDropdownOpen), currentFocusIndex)
    /\ UNCHANGED <<dataVars, cityVars, progRest>>

toggleCityDropdown ==
    /\ isDropdownOpen' = ~isDropdownOpen
    /\ dropdownActive' = ~isDropdownOpen
    /\ focusableElements' = UpdateFocusableElements(~isDropdownOpen)
    /\ FocusElement(UpdateFocusableElements(~isDropdownOpen), 0)
    /\ UNCHANGED <<dataVars, cityVars, progRest>>

\* closeDropdown() that focuses the index held inside the overlay
closeDropdownKeepsIndex ==
    IF isDropdownOpen
    THEN /\ isDropdownOpen' = FALSE
         /\ dropdownActive' = FALSE
         /\ focusableElements' = UpdateFocusableElements(FALSE)
         /\ FocusElement(UpdateFocusableElements(FALSE), currentFocusIndex)
    ELSE UNCHANGED navVars

\* closeDropdown() without the test of line 187
closeDropdownUnguarded ==
    /\ isDropdownOpen' = FALSE
    /\ dropdownActive' = FALSE
    /\ focusableElements' = UpdateFocusableElements(FALSE)
    /\ FocusElement(UpdateFocusableElements(FALSE), 0)

\* closeDropdown(): the navigation state only (selectCity calls it too)
closeDropdown ==
    IF isDropdownOpen
    THEN /\ isDropdownOpen' = FALSE
         /\ dropdownActive' = FALSE
         /\ focusableElements' = UpdateFocusableElements(FALSE)
         /\ FocusElement(UpdateFocusableElements(FALSE), 0)
    ELSE UNCHANGED navVars

\* saveCity(cityKey) that writes nothing
saveCityDropped(cityKey, throws) ==
    savedCity' = savedCity

\* saveCity(cityKey): setItem stores the key, or throws and is caught
saveCity(cityKey, throws) ==
    savedCity' = IF throws THEN savedCity ELSE cityKey

\* selectCity(cityKey) whose saveCity lets the exception of setItem escape
selectCityUncaught(cityKey, throws) ==
    IF throws
    THEN /\ currentCity' = cityKey
         /\ UNCHANGED <<savedCity, selectedCityText, navVars, dataVars, progRest>>
    ELSE /\ currentCity' = cityKey
         /\ saveCity(cityKey, throws)
         /\ selectedCityText' = cityKey
         /\ closeDropdown
         /\ loadWeatherData(cityKey)
         /\ UNCHANGED <<weatherData, chart, shownCity, progRest>>

\* selectCity(cityKey) for a key of this.cities; throws: setItem throws
selectCity(cityKey, throws) ==
    /\ currentCity' = cityKey
    /\ saveCity(cityKey, throws)
    /\ selectedCityText' = cityKey
    /\ closeDropdown
    /\ loadWeatherData(cityKey)
    /\ UNCHANGED <<weatherData, chart, shownCity, progRest>>

setTimeRange(hours) ==
    /\ currentTimeRange' = hours
    /\ chart' = IF weatherData # Null /\ weatherData.good
                THEN DrawnChart(weatherData, hours)
                ELSE chart
    /\ UNCHANGED <<navVars, cityVars, weatherData, shownCity, loadingActive,
                   errorActive, inflight, autoRefreshInterval, numOptions,
                   initFocusPending, app>>

\* the retry button's click listener
retry ==
    /\ loadWeatherData(currentCity)
    /\ UNCHANGED <<navVars, cityVars, weatherData, chart, shownCity, progRest>>

\* the click listener setupEventListeners() registers on element el
click(el, throws) ==
    CASE el.kind = "citySelector" -> toggleCityDropdown
      [] el.kind = "city-option" -> selectCity(DataCity(el.n), throws)
      [] el.kind = "range24h" -> setTimeRange(Range24)
      [] el.kind = "range48h" -> setTimeRange(Range48)
      [] el.kind = "retryBtn" -> retry

NoEffect == UNCHANGED <<navVars, dataVars, cityVars, progRest>>

\* focusableElements[currentFocusIndex] is an element (not undefined)
HasFocusedElement == currentFocusIndex + 1 \in 1 .. Len(focusableElements)

\* activateFocusedElement() that falls back to the city selector when no
\* target is focused
activateFocusedElementFallback(throws) ==
    IF HasFocusedElement
    THEN click(focusableElements[currentFocusIndex + 1], throws)
    ELSE click(CitySelector, throws)

activateFocusedElement(throws) ==
    IF HasFocusedElement
    THEN click(focusableElements[currentFocusIndex + 1], throws)
    ELSE NoEffect

\* handleKeyDown(e) that moves the focus on ArrowLeft and ArrowRight only
handleKeyDownHorizontal(key, throws) ==
    CASE key = "ArrowRight" ->
            /\ focusNext
            /\ UNCHANGED <<focusableElements, isDropdownOpen, dropdownActive,
                           dataVars, cityVars, progRest>>
      [] key = "ArrowLeft" ->
            /\ focusPrevious
            /\ UNCHANGED <<focusableElements, isDropdownOpen, dropdownActive,
                           dataVars, cityVars, progRest>>
      [] key \in {"Enter", " "} -> activateFocusedElement(throws)
      [] key \in {"Escape", "Backspace"} ->
            /\ closeDropdown
            /\ UNCHANGED <<dataVars, cityVars, progRest>>
      [] OTHER -> NoEffect

handleKeyDown(key, throws) ==
    CASE key \in {"ArrowRight", "ArrowDown"} ->
            /\ focusNext
            /\ UNCHANGED <<focusableElements, isDropdownOpen, dropdownActive,
                           dataVars, cityVars, progRest>>
      [] key \in {"ArrowLeft", "ArrowUp"} ->
            /\ focusPrevious
            /\ UNCHANGED <<focusableElements, isDropdownOpen, dropdownActive,
                           dataVars, cityVars, progRest>>
      [] key \in {"Enter", " "} -> activateFocusedElement(throws)
      [] key \in {"Escape", "Backspace"} ->
            /\ closeDropdown
            /\ UNCHANGED <<dataVars, cityVars, progRest>>
      [] OTHER -> NoEffect

(***************************************************************************)
(* Timers                                                                  *)
(***************************************************************************)
\* a refresh that also dismisses the overlay
autoRefreshTickCloses ==
    /\ autoRefreshInterval
    /\ loadWeatherData(currentCity)
    /\ closeDropdown
    /\ UNCHANGED <<cityVars, weatherData, chart, shownCity, progRest>>

\* the setInterval callback of startAutoRefresh()
autoRefreshTick ==
    /\ autoRefreshInterval
    /\ loadWeatherData(currentCity)
    /\ UNCHANGED <<navVars, cityVars, weatherData, chart, shownCity, progRest>>

\* stopAutoRefresh() that returns without clearing the timer
stopAutoRefreshKeeps ==
    UNCHANGED <<navVars, dataVars, cityVars, progRest>>

\* stopAutoRefresh(), called by the beforeunload listener
stopAutoRefresh ==
    /\ autoRefreshInterval' = FALSE
    /\ UNCHANGED <<navVars, dataVars, cityVars, currentTimeRange, numOptions,
                   initFocusPending, app>>

\* setTimeout(() => this.focusElement(0), 100)
initialFocus ==
    /\ initFocusPending
    /\ initFocusPending' = FALSE
    /\ FocusElement(focusableElements, 0)
    /\ UNCHANGED <<focusableElements, isDropdownOpen, dropdownActive, dataVars,
                   cityVars, currentTimeRange, autoRefreshInterval, numOptions,
                   app>>

(***************************************************************************)
(* The state after new AppleTVWeatherApp()                                 *)
(***************************************************************************)
\* loadSavedCity(): the stored string, or null when getItem throws
loadSavedCity(throws) == IF throws THEN NoCity ELSE savedCity

\* this.loadSavedCity() || 'tokyo'
StartCity(saved) == IF saved = NoCity THEN Tokyo ELSE saved

\* loadSavedCity() || 'tokyo': the stored string, or 'tokyo' when nothing is
\* stored or getItem throws
StartCities == {StartCity(loadSavedCity(throws)) : throws \in BOOLEAN}

\* the state after construction, getItem throwing as readThrows allows
InitIn(readThrows) ==
    /\ numOptions \in 0 .. MaxOptions
    /\ savedCity \in Cities \cup {NoCity, InvalidCity}
    /\ currentCity \in {StartCity(loadSavedCity(throws)) : throws \in readThrows}
    /\ currentTimeRange = Range24
    /\ focusableElements = NormalTargets
    /\ currentFocusIndex = 0
    /\ isDropdownOpen = FALSE
    /\ weatherData = Null
    /\ chart = Null
    /\ autoRefreshInterval = TRUE
    /\ focused = {}
    /\ activeElement = Body
    /\ dropdownActive = FALSE
    /\ shownCity = NoCity
    /\ initFocusPending = TRUE
    \* line 55 throws for an unknown key: the constructor does not return
    \* and line 592 assigns nothing
    /\ app = (currentCity \in Cities)
    \* init(): loadWeatherData() has run up to its first await; with an
    \* unknown key it has failed already and line 55 never sets the text
    /\ IF currentCity \in Cities
       THEN /\ inflight = <<[city |-> currentCity, hours |-> Range24]>>
            /\ loadingActive = TRUE
            /\ errorActive = FALSE
            /\ selectedCityText = currentCity
       ELSE /\ inflight = <<>>
            /\ loadingActive = FALSE
            /\ errorActive = TRUE
            /\ selectedCityText = NoCity
    /\ lastOp = "other"
    /\ run = 0
    /\ preOverlayIndex = 0

Init == InitIn(BOOLEAN)

\* the page is loaded again: DOMContentLoaded constructs a new app over the
\* same markup and the same localStorage; the old page's timers and
\* requests are gone
reload(throws) ==
    /\ currentCity' = StartCity(loadSavedCity(throws))
    /\ currentTimeRange' = Range24
    /\ focusableElements' = NormalTargets
    /\ currentFocusIndex' = 0
    /\ isDropdownOpen' = FALSE
    /\ weatherData' = Null
    /\ chart' = Null
    /\ autoRefreshInterval' = TRUE
    /\ focused' = {}
    /\ activeElement' = Body
    /\ dropdownActive' = FALSE
    /\ shownCity' = NoCity
    /\ initFocusPending' = TRUE
    /\ app' = (currentCity' \in Cities)
    /\ IF currentCity' \in Cities
       THEN /\ inflight' = <<[city |-> currentCity', hours |-> Range24]>>
            /\ loadingActive' = TRUE
            /\ errorActive' = FALSE
            /\ selectedCityText' = currentCity'
       ELSE /\ inflight' = <<>>
            /\ loadingActive' = FALSE
            /\ errorActive' = TRUE
            /\ selectedCityText' = NoCity
    /\ UNCHANGED <<numOptions, savedCity>>

(***************************************************************************)
(* History                                                                 *)
(***************************************************************************)
\* the handler a click on el runs
ClickOp(el) ==
    CASE el.kind = "citySelector" -> "toggleCityDropdown"
      [] el.kind = "city-option" -> "selectCity"
      [] el.kind \in {"range24h", "range48h"} -> "other"
      [] el.kind = "retryBtn" -> "refresh"

\* the handler key runs
KeyOp(key) ==
    CASE key \in {"ArrowRight", "ArrowDown"} -> "focusNext"
      [] key \in {"ArrowLeft", "ArrowUp"} -> "focusPrevious"
      [] key \in {"Enter", " "} ->
            IF HasFocusedElement
            THEN ClickOp(focusableElements[currentFocusIndex + 1])
            ELSE "activateFocusedElement"
      [] key \in {"Escape", "Backspace"} -> "closeDropdown"
      [] OTHER -> "other"

Record(op) ==
    /\ lastOp' = op
    /\ preOverlayIndex' = IF isDropdownOpen'
                          THEN IF isDropdownOpen THEN preOverlayIndex
                               ELSE currentFocusIndex
                          ELSE IF isDropdownOpen THEN preOverlayIndex ELSE 0

\* the length of a run of focusNext (or of focusPrevious) calls
Count(op) ==
    run' = IF lastOp = op THEN Min(run + 1, RunCap) ELSE 1

\* a handler that may issue a request, within the bound on open requests
Issues ==
    Len(inflight') <= MaxInflight

(***************************************************************************)
(* Events.  Each takes the environment's answers from a set: whether       *)
(* localStorage.setItem throws, and how the server answers.                *)
(***************************************************************************)
Clickable ==
    {CitySelector, Range24h, Range48h, RetryBtn}
        \cup {CityOption(i) : i \in 1 .. numOptions}

KeyDownIn(setItemThrows) ==
    \E key \in Keys, throws \in setItemThrows :
        /\ handleKeyDown(key, throws)
        /\ Issues
        /\ Record(KeyOp(key))
        /\ run' = run

ClickIn(setItemThrows) ==
    \E el \in Clickable, throws \in setItemThrows :
        /\ click(el, throws)
        /\ Issues
        /\ Record(ClickOp(el))
        /\ run' = run

ResponseIn(outcomes) ==
    \E i \in 1 .. Len(inflight), outcome \in outcomes :
        /\ loadWeatherDataResume(i, outcome)
        /\ Record("response")
        /\ run' = run

(***************************************************************************)
(* Spec: navigation by keys and clicks interleaved with loads and the      *)
(* timers; localStorage is writable and the server answers with a          *)
(* well-formed body or fails.                                              *)
(***************************************************************************)
KeyDown == KeyDownIn({FALSE})

Click == ClickIn({FALSE})

Tick ==
    /\ autoRefreshTick
    /\ Issues
    /\ Record("refresh")
    /\ run' = run

Response == ResponseIn({"ok", "fail"})

\* the answers of a device that is offline
ResponseFailed == ResponseIn({"fail"})

InitialFocus ==
    /\ initialFocus
    /\ Record("other")
    /\ run' = run

Next ==
    \/ KeyDown
    \/ Click
    \/ Tick
    \/ Response
    \/ InitialFocus

Spec == Init /\ [][Next]_vars

(***************************************************************************)
(* SpecUnload: navigation, the refresh timer and the beforeunload listener *)
(* on a device that is offline; a page whose unload is cancelled keeps     *)
(* running after the listener.                                             *)
(***************************************************************************)
\* the beforeunload listener: if (app) app.stopAutoRefresh()
beforeunload ==
    IF app THEN stopAutoRefresh ELSE NoEffect

\* the refresh timer, recorded apart from the retry button
AutoRefresh ==
    /\ autoRefreshTick
    /\ Issues
    /\ Record("autoRefresh")
    /\ run' = run

BeforeUnload ==
    /\ beforeunload
    /\ Record(IF app THEN "stopAutoRefresh" ELSE "other")
    /\ run' = run

NextUnload ==
    \/ KeyDown
    \/ Click
    \/ AutoRefresh
    \/ ResponseFailed
    \/ InitialFocus
    \/ BeforeUnload

SpecUnload == Init /\ [][NextUnload]_vars

(***************************************************************************)
(* SpecFocus: runs of focusNext() and focusPrevious() from every FocusSet  *)
(* the page can give and every index the program can hold with it.  The    *)
(* start states are states of Spec in which the first load has completed   *)
(* and the start-up timer has fired.                                       *)
(***************************************************************************)
\* the indexes the program can hold with FocusSet fe: an empty set is the
\* overlay of a page without options, opened from any Normal index
StartIndexes(fe) ==
    IF Len(fe) = 0 THEN 0 .. Len(NormalTargets) - 1 ELSE 0 .. Len(fe) - 1

InitFocus ==
    /\ numOptions \in 0 .. MaxOptions
    /\ isDropdownOpen \in BOOLEAN
    /\ dropdownActive = isDropdownOpen
    /\ focusableElements = UpdateFocusableElements(isDropdownOpen)
    /\ currentFocusIndex \in StartIndexes(focusableElements)
    /\ focused = IF focusableElements = <<>>
                 THEN {NormalTargets[currentFocusIndex + 1]}
                 ELSE IF isDropdownOpen
                      THEN {CitySelector, focusableElements[currentFocusIndex + 1]}
                      ELSE {focusableElements[currentFocusIndex + 1]}
    /\ activeElement = IF focusableElements = <<>>
                       THEN NormalTargets[currentFocusIndex + 1]
                       ELSE focusableElements[currentFocusIndex + 1]
    /\ savedCity = NoCity
    /\ currentCity = Tokyo
    /\ selectedCityText = Tokyo
    /\ currentTimeRange = Range24
    /\ weatherData = [city |-> Tokyo, hours |-> Range24, good |-> TRUE]
    /\ chart = DrawnChart(weatherData, Range24)
    /\ shownCity = Tokyo
    /\ loadingActive = FALSE
    /\ errorActive = FALSE
    /\ inflight = <<>>
    /\ autoRefreshInterval = TRUE
    /\ initFocusPending = FALSE
    /\ app = TRUE
    /\ lastOp = "other"
    /\ run = 0
    /\ preOverlayIndex = IF focusableElements = <<>> THEN currentFocusIndex ELSE 0

NextKey ==
    \E key \in {"ArrowRight", "ArrowDown"} :
        /\ handleKeyDown(key, FALSE)
        /\ Record(KeyOp(key))
        /\ Count(KeyOp(key))

PreviousKey ==
    \E key \in {"ArrowLeft", "ArrowUp"} :
        /\ handleKeyDown(key, FALSE)
        /\ Record(KeyOp(key))
        /\ Count(KeyOp(key))

NextFocus ==
    \/ NextKey
    \/ PreviousKey

SpecFocus == InitFocus /\ [][NextFocus]_vars

(***************************************************************************)
(* SpecFaults: city selection with a localStorage that may throw on every  *)
(* call, on a device that is offline: every request fails and the refresh  *)
(* timer does not fire.                                                    *)
(***************************************************************************)
KeyDownFaulty == KeyDownIn(BOOLEAN)

ClickFaulty == ClickIn(BOOLEAN)

NextFaults ==
    \/ KeyDownFaulty
    \/ ClickFaulty
    \/ ResponseFailed
    \/ InitialFocus

SpecFaults == Init /\ [][NextFaults]_vars

(***************************************************************************)
(* SpecStore: Spec with a localStorage that never throws, and page         *)
(* reloads.                                                                *)
(***************************************************************************)
Reload ==
    /\ reload(FALSE)
    /\ lastOp' = "reload"
    /\ preOverlayIndex' = 0
    /\ run' = run

NextStore ==
    \/ Next
    \/ Reload

SpecStore == InitIn({FALSE}) /\ [][NextStore]_vars

(***************************************************************************)
(* SpecLoads: Spec with each answer recorded as the success or the failure *)
(* of its loadWeatherData() call.                                          *)
(***************************************************************************)
Succeeded ==
    \E i \in 1 .. Len(inflight) :
        /\ loadWeatherDataResume(i, "ok")
        /\ Record("succeeded")
        /\ run' = run

Failed ==
    \E i \in 1 .. Len(inflight) :
        /\ loadWeatherDataResume(i, "fail")
        /\ Record("failed")
        /\ run' = run

NextLoads ==
    \/ KeyDown
    \/ Click
    \/ Tick
    \/ Succeeded
    \/ Failed
    \/ InitialFocus

SpecLoads == Init /\ [][NextLoads]_vars

(***************************************************************************)
(* SpecKeys: keys and clicks on a device that is offline, with the key of  *)
(* each keydown event recorded.                                            *)
(***************************************************************************)
KeyPressed ==
    \E key \in Keys :
        /\ handleKeyDown(key, FALSE)
        /\ Issues
        /\ Record(key)
        /\ run' = run

NextKeys ==
    \/ KeyPressed
    \/ Click
    \/ ResponseFailed
    \/ InitialFocus

SpecKeys == Init /\ [][NextKeys]_vars

(***************************************************************************)
(* SpecBodies: clicks and loads with a server whose ok responses may carry *)
(* a body without the hourly series; such a load ends in the catch block   *)
(* and is recorded as failed.                                              *)
(***************************************************************************)
Malformed ==
    \E i \in 1 .. Len(inflight) :
        /\ loadWeatherDataResume(i, "bad")
        /\ Record("failed")
        /\ run' = run

NextBodies ==
    \/ Click
    \/ Succeeded
    \/ Failed
    \/ Malformed
    \/ InitialFocus

SpecBodies == Init /\ [][NextBodies]_vars

(***************************************************************************)
(* Properties                                                              *)
(***************************************************************************)
\* C1: between handlers, whenever focusableElements is non-empty,
\* 0 <= currentFocusIndex <= focusableElements.length - 1.
C1_IndexInRange ==
    Len(focusableElements) > 0
        => currentFocusIndex \in 0 .. Len(focusableElements) - 1

\* the overlay of a page with one option, opened while the index was 2
C1_Witness ==
    /\ isDropdownOpen
    /\ Len(focusableElements) = 1
    /\ preOverlayIndex = 2
    /\ currentFocusIndex = 0

\* C2: each focusNext() on a non-empty FocusSet of length N advances the index
\* by one while it is below N-1 and leaves it at N-1 otherwise; after N+5 (or
\* more) calls in a row the index is N-1.
C2_FocusNextClamps ==
    /\ [](/\ lastOp = "focusNext"
          /\ Len(focusableElements) > 0
          /\ run >= Len(focusableElements) + 5
          => currentFocusIndex = Len(focusableElements) - 1)
    /\ [][lastOp' = "focusNext" /\ Len(focusableElements) > 0
          => currentFocusIndex'
               = Min(currentFocusIndex + 1, Len(focusableElements) - 1)]_vars

C2_Witness ==
    /\ lastOp = "focusNext"
    /\ Len(focusableElements) > 1
    /\ run >= Len(focusableElements) + 5
    /\ currentFocusIndex = Len(focusableElements) - 1

\* C3: after N-1 (or more) focusPrevious() calls in a row on a non-empty
\* FocusSet of length N the index is 0, from every start index, and a
\* focusPrevious() at index 0 leaves it at 0.
C3_FocusPreviousClamps ==
    /\ [](/\ lastOp = "focusPrevious"
          /\ Len(focusableElements) > 0
          /\ run >= Len(focusableElements) - 1
          => currentFocusIndex = 0)
    /\ [][/\ lastOp' = "focusPrevious"
          /\ Len(focusableElements) > 0
          /\ currentFocusIndex = 0
          => currentFocusIndex' = 0]_vars

C3_Witness ==
    /\ lastOp = "focusPrevious"
    /\ Len(focusableElements) > 1
    /\ run > Len(focusableElements)
    /\ currentFocusIndex = 0

\* the FocusSet is recomputed by a mode change: toggleCityDropdown, or
\* closeDropdown (by key or from selectCity) while the overlay is open
ModeChange == isDropdownOpen' # isDropdownOpen

\* C4 as claimed: every handler that changes the mode returns with
\* currentFocusIndex = 0, whatever the size of the new FocusSet.
C4_IndexZeroAfterModeChange ==
    [][ModeChange => currentFocusIndex' = 0]_vars

\* C4 as amended: every handler that changes the mode returns with
\* currentFocusIndex = 0 when the new FocusSet is non-empty, and with the
\* index it held before when the new FocusSet is empty.
C4_IndexZeroUnlessEmpty ==
    [][ModeChange => currentFocusIndex'
                       = IF Len(focusableElements') > 0
                         THEN 0
                         ELSE currentFocusIndex]_vars

C4_Witness ==
    /\ lastOp = "toggleCityDropdown"
    /\ isDropdownOpen
    /\ Len(focusableElements) > 1
    /\ preOverlayIndex = 2
    /\ currentFocusIndex = 0

\* C5: every handler that closes the overlay returns in Normal mode with the
\* Normal FocusSet, currentFocusIndex = 0 and the first Normal target focused.
C5_CloseFocusesFirst ==
    [][isDropdownOpen /\ ~isDropdownOpen'
          => /\ focusableElements' = NormalTargets
             /\ currentFocusIndex' = 0
             /\ CitySelector \in focused'
             /\ activeElement' = CitySelector]_vars

\* a city was selected in an overlay that had been opened at index 2
C5_Witness ==
    /\ lastOp = "selectCity"
    /\ ~isDropdownOpen
    /\ preOverlayIndex = 2
    /\ currentFocusIndex = 0

\* C6: between handlers focusableElements is the list of city options when
\* the overlay is open and the list of Normal targets when it is not, and it
\* holds no target twice.
C6_FocusSetMatchesMode ==
    /\ focusableElements = IF isDropdownOpen THEN CityOptions ELSE NormalTargets
    /\ isDropdownOpen => Range(focusableElements) \cap Range(NormalTargets) = {}
    /\ ~isDropdownOpen =>
          \A el \in Range(focusableElements) : el.kind # "city-option"
    /\ \A i, j \in 1 .. Len(focusableElements) :
          focusableElements[i] = focusableElements[j] => i = j

C6_Witness ==
    /\ lastOp = "toggleCityDropdown"
    /\ isDropdownOpen
    /\ Len(focusableElements) = MaxOptions

\* C7: Escape or Backspace in Normal mode changes neither isDropdownOpen,
\* focusableElements, currentFocusIndex nor the focused markers.
C7_CloseInNormalIsNoOp ==
    [][lastOp' = "closeDropdown" /\ ~isDropdownOpen => UNCHANGED navVars]_vars

C7_Witness ==
    /\ lastOp = "closeDropdown"
    /\ ~isDropdownOpen
    /\ currentFocusIndex = 2

\* C8: with an empty FocusSet, focusNext(), focusPrevious() and
\* activateFocusedElement() change no state.
C8_EmptyFocusSetNoOp ==
    [][/\ Len(focusableElements) = 0
       /\ lastOp' \in {"focusNext", "focusPrevious", "activateFocusedElement"}
       => UNCHANGED <<navVars, dataVars, cityVars, progRest>>]_vars

C8_Witness ==
    /\ Len(focusableElements) = 0
    /\ lastOp \in {"focusNext", "focusPrevious", "activateFocusedElement"}
    /\ currentFocusIndex = 2

\* C9: neither the start of a timer- or retry-triggered load nor the handling
\* of a response changes isDropdownOpen, focusableElements or
\* currentFocusIndex.
C9_RefreshKeepsNavigation ==
    [][lastOp' \in {"refresh", "response"}
          => UNCHANGED <<isDropdownOpen, focusableElements, currentFocusIndex>>]_vars

\* a response was handled while the overlay was open and its second option
\* was focused
C9_Witness ==
    /\ lastOp = "response"
    /\ isDropdownOpen
    /\ currentFocusIndex > 0

\* C10 as claimed: when every request has been answered and none has failed
\* since the last one was issued, weatherData and the displayed current
\* weather are those of the last-issued request, the selected city's.
C10_LaterRequestWins ==
    Len(inflight) = 0 /\ ~errorActive /\ weatherData # Null
        => weatherData.city = currentCity /\ shownCity = currentCity

\* C11: the app starts with 'tokyo', as it does with an empty store, when
\* the stored city cannot be read; and a selectCity whose write throws still
\* sets currentCity and the city text, closes the overlay and starts the
\* load of the selected city.
C11_StorageFailuresTolerated ==
    /\ savedCity # NoCity /\ currentCity # savedCity
          => /\ currentCity = Tokyo
             /\ selectedCityText = Tokyo
             /\ inflight = <<[city |-> Tokyo, hours |-> Range24]>>
             /\ loadingActive /\ ~errorActive
    /\ [][lastOp' = "selectCity" /\ savedCity' # currentCity'
             => /\ savedCity' = savedCity
                /\ currentCity' \in Cities
                /\ selectedCityText' = currentCity'
                /\ ~isDropdownOpen'
                /\ focusableElements' = NormalTargets
                /\ inflight' = Append(inflight, [city |-> currentCity',
                                                  hours |-> currentTimeRange])
                /\ loadingActive' /\ ~errorActive']_vars

\* osaka was selected in the open overlay while the store, which held
\* nothing, refused the write
C11_Witness ==
    /\ lastOp = "selectCity"
    /\ preOverlayIndex = 2
    /\ ~isDropdownOpen
    /\ currentCity = Osaka
    /\ savedCity = NoCity
    /\ Len(inflight) > 0

\* C12: with a localStorage that never throws, selectCity(c) leaves c
\* stored; a new app start over the same store begins with the stored city
\* as currentCity, and with 'tokyo' when nothing is stored.
C12_SelectedCityPersists ==
    /\ (lastOp = "other" /\ initFocusPending /\ savedCity = NoCity
            => currentCity = Tokyo)
    /\ [][lastOp' = "selectCity"
             => savedCity' = currentCity' /\ savedCity' \in Cities]_vars
    /\ [][lastOp' = "reload"
             => currentCity' = IF savedCity = NoCity THEN Tokyo ELSE savedCity]_vars

\* the page reloaded while the store holds osaka: the new app starts with it
C12_Witness ==
    /\ lastOp = "reload"
    /\ savedCity = Osaka
    /\ currentCity = Osaka
    /\ inflight = <<[city |-> Osaka, hours |-> Range24]>>

\* the error prompt and the loading indicator after a load has ended
LoadEnds ==
    /\ lastOp' = "failed" => errorActive' /\ ~loadingActive'
    /\ lastOp' = "succeeded" => ~loadingActive' /\ errorActive' = errorActive

\* C13 as claimed: a load that fails on the network ends with the error
\* prompt active and the loading indicator off; a load that succeeds ends
\* with the loading indicator off and the error prompt as it was; and when
\* a handler that starts a load returns, the error prompt is hidden.
C13_LoadSetsPrompts ==
    /\ [][LoadEnds]_vars
    /\ [][lastOp' \in {"refresh", "selectCity"} => ~errorActive']_vars

\* the handler of this step called focusElement()
FocusElementRan ==
    \/ lastOp' \in {"focusNext", "focusPrevious", "toggleCityDropdown"}
    \/ lastOp' \in {"closeDropdown", "selectCity"} /\ isDropdownOpen
    \/ initFocusPending /\ ~initFocusPending'

\* C14: when a handler that called focusElement() on a non-empty FocusSet
\* returns, the marked targets of the current FocusSet are exactly the one
\* at currentFocusIndex.
C14_OneMarkedInFocusSet ==
    [][FocusElementRan /\ Len(focusableElements') > 0
          => focused' \cap Range(focusableElements')
                = {focusableElements'[currentFocusIndex' + 1]}]_vars

\* focusNext() moved the marker from the first option to the second
C14_Witness ==
    /\ lastOp = "focusNext"
    /\ isDropdownOpen
    /\ currentFocusIndex = 1
    /\ focused \cap Range(focusableElements) = {CityOption(2)}

\* what the rest of the state does while focusNext() or focusPrevious() runs
OnlyFocusMoves ==
    UNCHANGED <<focusableElements, isDropdownOpen, dropdownActive, dataVars,
                cityVars, progRest>>

\* C15: a keydown of ArrowUp or ArrowLeft changes the state as
\* focusPrevious() does, ArrowDown or ArrowRight as focusNext() does, Enter
\* or Space as activateFocusedElement() does, Escape or Backspace as
\* closeDropdown() does, and any other key changes nothing.
C15_KeyDispatch ==
    [][/\ lastOp' \in {"ArrowUp", "ArrowLeft"} => focusPrevious /\ OnlyFocusMoves
       /\ lastOp' \in {"ArrowDown", "ArrowRight"} => focusNext /\ OnlyFocusMoves
       /\ lastOp' \in {"Enter", " "} => activateFocusedElement(FALSE)
       /\ lastOp' \in {"Escape", "Backspace"}
             => closeDropdown /\ UNCHANGED <<dataVars, cityVars, progRest>>
       /\ lastOp' \in Keys \ {"ArrowUp", "ArrowLeft", "ArrowDown", "ArrowRight",
                               "Enter", " ", "Escape", "Backspace"}
             => NoEffect]_vars

\* ArrowDown moved the focus from the first option to the second
C15_Witness ==
    /\ lastOp = "ArrowDown"
    /\ isDropdownOpen
    /\ currentFocusIndex = 1
    /\ activeElement = CityOption(2)

\* C16: when stopAutoRefresh() returns autoRefreshInterval is null; from
\* then on it stays null and the timer starts no loadWeatherData(); and a
\* stopAutoRefresh() called when it is null changes nothing.
C16_RefreshStops ==
    /\ [][lastOp' = "stopAutoRefresh" => ~autoRefreshInterval']_vars
    /\ [][~autoRefreshInterval
             => ~autoRefreshInterval' /\ lastOp' # "autoRefresh"]_vars
    /\ [][lastOp' = "stopAutoRefresh" /\ ~autoRefreshInterval => NoEffect]_vars

\* the timer is stopped and the retry button has issued two requests since
C16_Witness ==
    /\ lastOp = "refresh"
    /\ ~autoRefreshInterval
    /\ app
    /\ Len(inflight) = 2

\* C17 as claimed: at most one element of the page is marked focused, and
\* a marked element is a member of the current FocusSet.
C17_OneMarkedInPage ==
    /\ Cardinality(focused) <= 1
    /\ focused \subseteq Range(focusableElements)

\* C18 as claimed: currentCity is a key of this.cities, whatever string
\* localStorage returned at startup.
C18_CurrentCityIsKey ==
    currentCity \in Cities

\* C19 as claimed: the loading indicator is active while a request is
\* outstanding.
C19_LoadingWhileInFlight ==
    Len(inflight) > 0 => loadingActive

\* C20 as claimed: a load that ends in its catch block, whatever the cause,
\* leaves weatherData as it was.
C20_FailedLoadKeepsData ==
    [][lastOp' = "failed" => weatherData' = weatherData]_vars

\* C21 as claimed: whenever a chart is displayed, its forecast window
\* covers currentTimeRange hours after the 'now' index.
C21_ChartCoversTimeRange ==
    chart # Null => chart.hours = currentTimeRange

\* the FocusSets updateFocusableElements() can build on this page
FocusSets == {UpdateFocusableElements(open) : open \in BOOLEAN}

\* C22 as claimed: whenever the error prompt is active, the retry button is
\* a member of a FocusSet the program can hold, so that keys can focus it
\* and activateFocusedElement() can click it.
C22_RetryReachableByKeys ==
    errorActive => \E fe \in FocusSets : RetryBtn \in Range(fe)

====
